---- MODULE Spec2Model ----
(***************************************************************************)
(* Model of the Tai Chi rehabilitation program: the three agents of        *)
(* core/ai_gents.py (TaiChiCoachAgent, ProgressTrackerAgent,               *)
(* SafetyMonitorAgent), the enumerations and field ranges of               *)
(* data/models.py, and the TaiChiProgram coordinator that main.py drives.  *)
(*                                                                         *)
(* Python values are modelled as follows.  A dict with fixed keys is a     *)
(* record; a dict iterated in insertion order (the injury profile) is a    *)
(* sequence of <<key, value>> pairs with distinct keys; a list is a        *)
(* sequence; a str is a string, with \o for concatenation and SubSeq for   *)
(* slices.  A call returns [exc, value]: exc = "none" and the returned     *)
(* value, or the name of the exception that escaped.                       *)
(***************************************************************************)
EXTENDS Integers, Sequences, FiniteSets, TLC

VARIABLES
    injuries,         \* TaiChiProgram.injuries: the injury profile
    current_week,     \* TaiChiProgram.current_week
    current_phase,    \* TaiChiProgram.current_phase
    progress_data,    \* ProgressTrackerAgent.progress_data, one record per row
    session_history,  \* SafetyMonitorAgent.session_history
    twin,             \* a second coordinator, stepped with the same inputs
    call              \* the last operation: its name, arguments and outcome

vars == <<injuries, current_week, current_phase, progress_data,
          session_history, twin, call>>

(***************************************************************************)
(* Call outcomes.                                                          *)
(***************************************************************************)
Ok(v) == [exc |-> "none", value |-> v]

Raise(e, what) == [exc |-> e, value |-> [detail |-> what]]

(***************************************************************************)
(* data/models.py: the enumerations.                                       *)
(***************************************************************************)
BodyPart ==
    {"left_shoulder", "right_shoulder", "left_calf", "lower_back",
     "neck", "right_calf", "upper_back", "hips"}

InjurySeverity == {"mild", "moderate", "severe"}

WorkoutPhase == {"foundation", "building", "integration", "mastery"}

(***************************************************************************)
(* Python helpers.                                                         *)
(***************************************************************************)
\* sub in s, for two strs
Contains(s, sub) ==
    \E i \in 1..(Len(s) - Len(sub) + 1) : SubSeq(s, i, i + Len(sub) - 1) = sub

\* str.lower() of each upper-case letter
LowerOf ==
    [A |-> "a", B |-> "b", C |-> "c", D |-> "d", E |-> "e", F |-> "f", G |-> "g",
     H |-> "h", I |-> "i", J |-> "j", K |-> "k", L |-> "l", M |-> "m", N |-> "n",
     O |-> "o", P |-> "p", Q |-> "q", R |-> "r", S |-> "s", T |-> "t", U |-> "u",
     V |-> "v", W |-> "w", X |-> "x", Y |-> "y", Z |-> "z"]

\* str.lower() of a one-character string
LowerChar(c) == IF c \in DOMAIN LowerOf THEN LowerOf[c] ELSE c

RECURSIVE Lower(_)
\* str.lower()
Lower(s) ==
    IF Len(s) = 0 THEN s
    ELSE LowerChar(SubSeq(s, 1, 1)) \o Lower(SubSeq(s, 2, Len(s)))

\* list[:n]
Take(s, n) == SubSeq(s, 1, IF Len(s) < n THEN Len(s) ELSE n)

Max(a, b) == IF a >= b THEN a ELSE b

Min(a, b) == IF a <= b THEN a ELSE b

RECURSIVE Flatten(_)
\* the concatenation of a sequence of sequences (repeated list.extend)
Flatten(ss) == IF ss = <<>> THEN <<>> ELSE Head(ss) \o Flatten(Tail(ss))

(***************************************************************************)
(* AIAgent._load_injury_modifications: the knowledge base holds four of    *)
(* the eight body parts.                                                   *)
(***************************************************************************)
ShoulderModifications ==
    [avoid |-> <<"high arm raises", "shoulder rotations", "weight bearing on arms">>,
     modify |-> <<"keep arms below shoulder height", "reduce range of motion",
                  "focus on lower body">>,
     compensatory |-> <<"leg strength", "core stability", "breathing techniques">>]

load_injury_modifications ==
    [left_shoulder |-> ShoulderModifications,
     right_shoulder |-> ShoulderModifications,
     left_calf |->
        [avoid |-> <<"deep stances", "jumping", "prolonged standing">>,
         modify |-> <<"shorter stances", "chair support", "reduced duration">>,
         compensatory |-> <<"upper body flow", "seated practice", "breathing focus">>],
     lower_back |->
        [avoid |-> <<"forward bends", "twisting", "arching">>,
         modify |-> <<"maintain neutral spine", "bend knees", "use support">>,
         compensatory |-> <<"gentle core engagement", "postural awareness",
                            "gradual progression">>]]

(***************************************************************************)
(* AIAgent._load_progression_rules: the length of each phase in weeks.     *)
(***************************************************************************)
\* the building phase one week short
phase_duration_weeks_short_building ==
    [foundation |-> 12, building |-> 11, integration |-> 12, mastery |-> 16]

phase_duration_weeks ==
    [foundation |-> 12, building |-> 12, integration |-> 12, mastery |-> 16]

(***************************************************************************)
(* TaiChiCoachAgent.analyze_injury_impact                                  *)
(***************************************************************************)
\* f"{restriction} ({severity.value})"
FormatRestriction(restriction, severity) == restriction \o " (" \o severity \o ")"

FocusAreas(body_part) ==
    IF body_part \in {"left_shoulder", "right_shoulder"}
    THEN <<"lower body stability and rooting", "deep diaphragmatic breathing",
           "mental visualization of arm movements">>
    ELSE IF body_part = "left_calf"
    THEN <<"upper body flow and coordination", "seated Tai Chi practice",
           "breathing techniques for circulation">>
    ELSE IF body_part = "lower_back"
    THEN <<"core engagement and stabilization", "postural alignment awareness",
           "gentle weight shifting">>
    ELSE <<>>

RehabilitationFocus(body_part) ==
    IF body_part \in {"left_shoulder", "right_shoulder"}
    THEN <<"gradual shoulder mobility restoration">>
    ELSE IF body_part = "left_calf"
    THEN <<"progressive calf strengthening">>
    ELSE IF body_part = "lower_back"
    THEN <<"spinal stabilization and core strength">>
    ELSE <<>>

\* the knowledge-base lookup of line 142 fails for a body part without an entry
UnknownParts(inj) ==
    {i \in 1..Len(inj) : inj[i][1] \notin DOMAIN load_injury_modifications}

\* a summary that lists the most recently added injury first
analyze_injury_impact_newest_first(inj) ==
    IF UnknownParts(inj) # {}
    THEN Raise("KeyError",
               inj[CHOOSE i \in UnknownParts(inj) :
                        \A j \in UnknownParts(inj) : i <= j][1])
    ELSE LET rev == [i \in 1..Len(inj) |-> inj[Len(inj) + 1 - i]]
         IN  Ok([restrictions |->
                    Flatten([i \in 1..Len(rev) |->
                        [k \in 1..Len(load_injury_modifications[rev[i][1]].avoid) |->
                            FormatRestriction(
                                load_injury_modifications[rev[i][1]].avoid[k],
                                rev[i][2])]]),
                 modifications |->
                    Flatten([i \in 1..Len(rev) |->
                        load_injury_modifications[rev[i][1]].modify]),
                 focus_areas |->
                    Flatten([i \in 1..Len(rev) |-> FocusAreas(rev[i][1])]),
                 compensatory_strategies |->
                    Flatten([i \in 1..Len(rev) |->
                        load_injury_modifications[rev[i][1]].compensatory]),
                 risk_factors |-> <<>>,
                 rehabilitation_focus |->
                    Flatten([i \in 1..Len(rev) |-> RehabilitationFocus(rev[i][1])])])

analyze_injury_impact(inj) ==
    IF UnknownParts(inj) # {}
    THEN Raise("KeyError",
               inj[CHOOSE i \in UnknownParts(inj) :
                        \A j \in UnknownParts(inj) : i <= j][1])
    ELSE Ok([restrictions |->
                Flatten([i \in 1..Len(inj) |->
                    [k \in 1..Len(load_injury_modifications[inj[i][1]].avoid) |->
                        FormatRestriction(
                            load_injury_modifications[inj[i][1]].avoid[k],
                            inj[i][2])]]),
             modifications |->
                Flatten([i \in 1..Len(inj) |->
                    load_injury_modifications[inj[i][1]].modify]),
             focus_areas |->
                Flatten([i \in 1..Len(inj) |-> FocusAreas(inj[i][1])]),
             compensatory_strategies |->
                Flatten([i \in 1..Len(inj) |->
                    load_injury_modifications[inj[i][1]].compensatory]),
             risk_factors |-> <<>>,
             rehabilitation_focus |->
                Flatten([i \in 1..Len(inj) |-> RehabilitationFocus(inj[i][1])])])

(***************************************************************************)
(* TaiChiCoachAgent: the plan generator.                                   *)
(***************************************************************************)
\* any(word in restriction for restriction in injury_impact["restrictions"])
AnyRestrictionHas(impact, word) ==
    \E i \in 1..Len(impact.restrictions) : Contains(impact.restrictions[i], word)

\* any(word in restriction.lower() for restriction in ...)
AnyRestrictionLowerHas(impact, word) ==
    \E i \in 1..Len(impact.restrictions) :
        Contains(Lower(impact.restrictions[i]), word)

\* the duration returned without the cap at 60 minutes
calculate_optimal_duration_uncapped(phase, week, impact) ==
    LET base == IF phase = "foundation" THEN 10 + (week * 2)
                ELSE IF phase = "building" THEN 20 + (Max(0, week - 12) * 3)
                ELSE IF phase = "integration" THEN 25 + (Max(0, week - 24) * 2)
                ELSE IF phase = "mastery" THEN 30 + (Max(0, week - 36) * 1)
                ELSE 15
    IN  IF AnyRestrictionHas(impact, "standing") THEN Max(10, base - 5) ELSE base

\* the integration base counting the weeks left before week 24
calculate_optimal_duration_weeks_left(phase, week, impact) ==
    LET base == IF phase = "foundation" THEN 10 + (week * 2)
                ELSE IF phase = "building" THEN 20 + (Max(0, week - 12) * 3)
                ELSE IF phase = "integration" THEN 25 + (Max(0, 24 - week) * 2)
                ELSE IF phase = "mastery" THEN 30 + (Max(0, week - 36) * 1)
                ELSE 15
        duration == IF AnyRestrictionHas(impact, "standing")
                    THEN Max(10, base - 5)
                    ELSE base
    IN  Min(duration, 60)

calculate_optimal_duration(phase, week, impact) ==
    LET base == IF phase = "foundation" THEN 10 + (week * 2)
                ELSE IF phase = "building" THEN 20 + (Max(0, week - 12) * 3)
                ELSE IF phase = "integration" THEN 25 + (Max(0, week - 24) * 2)
                ELSE IF phase = "mastery" THEN 30 + (Max(0, week - 36) * 1)
                ELSE 15
        duration == IF AnyRestrictionHas(impact, "standing")
                    THEN Max(10, base - 5)
                    ELSE base
    IN  Min(duration, 60)

calculate_frequency(phase, week) ==
    IF phase = "foundation" THEN 3
    ELSE IF phase = "building" THEN 4
    ELSE IF phase = "integration" THEN 5
    ELSE IF phase = "mastery" THEN 6
    ELSE 3

Exercise(c, n, d) == [category |-> c, name |-> n, duration |-> d]

select_phase_exercises(phase, impact, week) ==
    IF phase = "foundation"
    THEN <<Exercise("breathing", "abdominal_breathing", 5),
           Exercise("warmup", "joint_rotations", 5),
           Exercise("qigong", "standing_meditation", 8),
           Exercise("qigong", "cloud_hands", 7)>>
    ELSE IF phase = "building"
    THEN <<Exercise("breathing", "reverse_breathing", 5),
           Exercise("warmup", "gentle_stretching", 7),
           Exercise("qigong", "cloud_hands", 10),
           Exercise("forms", "commencement", 8),
           Exercise("forms", "ward_off", 10)>>
    ELSE <<Exercise("breathing", "reverse_breathing", 5),
           Exercise("warmup", "gentle_stretching", 7),
           Exercise("qigong", "cloud_hands", 8),
           Exercise("forms", "commencement", 5),
           Exercise("forms", "ward_off", 8),
           Exercise("forms", "roll_back", 8),
           Exercise("forms", "press", 8)>>

\* one pass of the loop body of _apply_injury_modifications.  shoulder,
\* standing and back are the three any(...) tests over the restrictions,
\* which do not depend on the exercise.  Every matching group assigns the
\* duration from the duration of the unmodified exercise, so the last
\* matching group decides it.
modify_exercise(exercise, shoulder, standing, back) ==
    LET shoulder_rule == shoulder /\ exercise.name \in {"cloud_hands", "ward_off"}
        standing_rule == standing /\ exercise.category \in {"qigong", "forms"}
        back_rule == back /\ exercise.name \in {"ward_off", "press"}
        d0 == exercise.duration
        d1 == IF shoulder_rule THEN Max(3, exercise.duration - 2) ELSE d0
        d2 == IF standing_rule THEN Max(3, exercise.duration - 3) ELSE d1
        d3 == IF back_rule THEN Max(3, exercise.duration - 2) ELSE d2
        modifications ==
            (IF shoulder_rule
             THEN <<"keep arms below shoulder height",
                    "reduce arm movement range by 50%">>
             ELSE <<>>)
            \o (IF standing_rule
                THEN <<"use chair for support if needed", "shorter stance width">>
                ELSE <<>>)
            \o (IF back_rule
                THEN <<"maintain neutral spine", "engage core throughout movement">>
                ELSE <<>>)
    IN  IF modifications # <<>>
        THEN [category |-> exercise.category, name |-> exercise.name,
              duration |-> d3, modifications |-> modifications]
        ELSE [category |-> exercise.category, name |-> exercise.name,
              duration |-> d3]

apply_injury_modifications(exercises, impact) ==
    LET shoulder == AnyRestrictionHas(impact, "shoulder")
        standing == AnyRestrictionHas(impact, "standing")
        back == AnyRestrictionLowerHas(impact, "back")
    IN  [i \in 1..Len(exercises) |->
            modify_exercise(exercises[i], shoulder, standing, back)]

get_energy_focus(phase, week) ==
    IF phase = "foundation" THEN "grounding and centering"
    ELSE IF phase = "building" THEN "flow and coordination"
    ELSE IF phase = "integration" THEN "internal energy circulation"
    ELSE IF phase = "mastery" THEN "effortless power and mindfulness"
    ELSE "mind-body connection"

generate_workout_plan(phase, impact, week) ==
    [phase |-> phase,
     week |-> week,
     duration_minutes |-> calculate_optimal_duration(phase, week, impact),
     frequency_per_week |-> calculate_frequency(phase, week),
     exercises |->
        apply_injury_modifications(select_phase_exercises(phase, impact, week),
                                   impact),
     precautions |-> Take(impact.restrictions, 3),
     modifications |-> Take(impact.modifications, 3),
     focus_points |-> Take(impact.focus_areas, 2),
     energy_focus |-> get_energy_focus(phase, week)]

(***************************************************************************)
(* Numbers.  pandas means are exact rationals here, [num, den] in lowest   *)
(* terms, and den = 0 stands for NaN (the mean of no rows), which every    *)
(* comparison answers with False.  Standard deviations are irrational:     *)
(* they are kept in tenths, rounded down.                                  *)
(***************************************************************************)
RECURSIVE Sum(_)
Sum(values) == IF values = <<>> THEN 0 ELSE Head(values) + Sum(Tail(values))

RECURSIVE Gcd(_, _)
Gcd(a, b) == IF b = 0 THEN a ELSE Gcd(b, a % b)

\* Series.mean()
Mean(values) ==
    IF values = <<>> THEN [num |-> 0, den |-> 0]
    ELSE LET g == Gcd(Len(values), Sum(values))
         IN  [num |-> Sum(values) \div g, den |-> Len(values) \div g]

\* a threshold that a mean equal to it already passes
MeanAtLeast(m, k) == m.den > 0 /\ m.num >= k * m.den

\* mean > k and mean < k, for an integer k
MeanGreater(m, k) == m.den > 0 /\ m.num > k * m.den

MeanLess(m, k) == m.den > 0 /\ m.num < k * m.den

RECURSIVE ISqrtIn(_, _, _)
\* the largest r in lo..hi with r * r <= n
ISqrtIn(n, lo, hi) ==
    IF lo >= hi THEN lo
    ELSE LET mid == (lo + hi + 1) \div 2
         IN  IF mid * mid <= n THEN ISqrtIn(n, mid, hi) ELSE ISqrtIn(n, lo, mid - 1)

\* Series.std(), the sample standard deviation (ddof = 1), in tenths
StdTenths(values) ==
    LET n == Len(values)
        squares == [i \in 1..n |-> values[i] * values[i]]
        num == n * Sum(squares) - Sum(values) * Sum(values)
    IN  ISqrtIn((100 * num) \div (n * (n - 1)), 0, 2000)

(***************************************************************************)
(* ProgressTrackerAgent                                                    *)
(***************************************************************************)
\* dict.get(key, default)
Get(d, key, default) == IF key \in DOMAIN d THEN d[key] ELSE default

\* the keys record_session subscripts, in the order it reads them
RequiredKeys == <<"phase", "week", "duration_minutes", "exercises">>

MissingKeys(session_data) ==
    {k \in 1..Len(RequiredKeys) : RequiredKeys[k] \notin DOMAIN session_data}

\* record_session: the new progress_data, or the KeyError of a subscript
record_session(data, session_data, now) ==
    IF MissingKeys(session_data) # {}
    THEN Raise("KeyError",
               RequiredKeys[CHOOSE k \in MissingKeys(session_data) :
                                \A j \in MissingKeys(session_data) : k <= j])
    ELSE Ok([progress_data |->
                Append(data,
                    [timestamp |-> now,
                     phase |-> session_data.phase,
                     week |-> session_data.week,
                     duration_minutes |-> session_data.duration_minutes,
                     pain_level |-> Get(session_data, "pain_level", 0),
                     fatigue_level |-> Get(session_data, "fatigue_level", 0),
                     mood_level |-> Get(session_data, "mood_level", 0),
                     exercises_completed |-> Len(session_data.exercises),
                     modifications_used |->
                        Len(Get(session_data, "modifications", <<>>)),
                     completion_percentage |->
                        Get(session_data, "completion_percentage", 100),
                     notes |-> Get(session_data, "notes", "")])])

\* DataFrame.tail(n): the last n rows, and for n < 0 all rows but the first -n
DataFrameTail(data, n) ==
    IF n >= 0
    THEN SubSeq(data, IF Len(data) > n THEN Len(data) - n + 1 ELSE 1, Len(data))
    ELSE SubSeq(data, 1 - n, Len(data))

\* data[column].values
Column(data, column) == [i \in 1..Len(data) |-> data[i][column]]

calculate_consistency(data) ==
    IF Len(data) < 2 THEN 1000
    ELSE LET completion_std == StdTenths(Column(data, "completion_percentage"))
             duration_std == StdTenths(Column(data, "duration_minutes"))
             completion_consistency == Max(0, 1000 - (completion_std * 10))
             duration_consistency == Max(0, 1000 - (duration_std * 5))
         IN  (completion_consistency + duration_consistency) \div 2

\* the trend taken between the last two rows
calculate_trend_adjacent(data, column) ==
    IF Len(data) < 2 THEN "stable"
    ELSE LET values == Column(data, column)
         IN  IF 2 * values[Len(values)] > 2 * values[Len(values) - 1] + 1
             THEN "increasing"
             ELSE IF 2 * values[Len(values)] < 2 * values[Len(values) - 1] - 1
             THEN "decreasing"
             ELSE "stable"

\* values[-1] > values[0] + 0.5 on integers, both sides doubled
calculate_trend(data, column) ==
    IF Len(data) < 2 THEN "stable"
    ELSE LET values == Column(data, column)
         IN  IF 2 * values[Len(values)] > 2 * values[1] + 1 THEN "increasing"
             ELSE IF 2 * values[Len(values)] < 2 * values[1] - 1 THEN "decreasing"
             ELSE "stable"

generate_recommendations(data) ==
    LET avg_pain == Mean(Column(data, "pain_level"))
        avg_fatigue == Mean(Column(data, "fatigue_level"))
        completion_rate == Mean(Column(data, "completion_percentage"))
        recommendations ==
            (IF MeanGreater(avg_pain, 6)
             THEN <<"reduce_intensity_50_percent", "focus_on_breathing_exercises",
                    "consult_healthcare_provider_if_persistent">>
             ELSE IF MeanGreater(avg_pain, 4)
             THEN <<"maintain_current_intensity">>
             ELSE <<>>)
            \o (IF MeanGreater(avg_fatigue, 6)
                THEN <<"ensure_adequate_rest", "reduce_frequency_by_one_session",
                       "focus_on_recovery_nutrition">>
                ELSE <<>>)
            \o (IF MeanGreater(completion_rate, 90)
                THEN <<"consider_moderate_progression">>
                ELSE IF MeanLess(completion_rate, 70)
                THEN <<"simplify_exercises_temporarily">>
                ELSE <<>>)
    IN  IF recommendations # <<>> THEN recommendations
        ELSE <<"continue_current_program">>

identify_risk_factors(data) ==
    IF Len(data) >= 3
    THEN LET recent_pain == DataFrameTail(Column(data, "pain_level"), 3)
             recent_completion ==
                DataFrameTail(Column(data, "completion_percentage"), 3)
         IN  (IF \A i \in 1..Len(recent_pain) : recent_pain[i] >= 5
              THEN <<"persistent_moderate_pain">> ELSE <<>>)
             \o (IF \A i \in 1..Len(recent_completion) : recent_completion[i] < 60
                 THEN <<"consistent_low_completion">> ELSE <<>>)
    ELSE <<>>

\* the sentinel returned whenever the log is shorter than the window
analyze_trends_short_log(data, window_size) ==
    IF Len(data) < window_size
    THEN [status |-> "no_data", recommendations |-> <<"continue_baseline">>]
    ELSE [recommendations |->
            generate_recommendations(DataFrameTail(data, window_size)),
          risk_factors |-> identify_risk_factors(DataFrameTail(data, window_size))]

\* a report stamped with the time of its last row
analyze_trends_stamped(data, window_size) ==
    IF data = <<>>
    THEN [status |-> "no_data", recommendations |-> <<"continue_baseline">>]
    ELSE [recommendations |->
            generate_recommendations(DataFrameTail(data, window_size)),
          risk_factors |-> identify_risk_factors(DataFrameTail(data, window_size)),
          as_of |-> data[Len(data)].timestamp]

analyze_trends(data, window_size) ==
    IF data = <<>>
    THEN [status |-> "no_data", recommendations |-> <<"continue_baseline">>]
    ELSE LET recent_data == DataFrameTail(data, window_size)
         IN  [performance_metrics |->
                [avg_duration |-> Mean(Column(recent_data, "duration_minutes")),
                 avg_pain |-> Mean(Column(recent_data, "pain_level")),
                 avg_fatigue |-> Mean(Column(recent_data, "fatigue_level")),
                 completion_rate |->
                    Mean(Column(recent_data, "completion_percentage")),
                 consistency_score |-> calculate_consistency(recent_data)],
              trends |->
                [pain_trend |-> calculate_trend(recent_data, "pain_level"),
                 duration_trend |->
                    calculate_trend(recent_data, "duration_minutes"),
                 completion_trend |->
                    calculate_trend(recent_data, "completion_percentage")],
              recommendations |-> generate_recommendations(recent_data),
              risk_factors |-> identify_risk_factors(recent_data)]

(***************************************************************************)
(* SafetyMonitorAgent                                                      *)
(***************************************************************************)
\* the red pain threshold one too high
safety_thresholds_late_red ==
    [pain_level_red |-> 8, pain_level_yellow |-> 4,
     fatigue_level_red |-> 8, completion_minimum |-> 50]

safety_thresholds ==
    [pain_level_red |-> 7, pain_level_yellow |-> 4,
     fatigue_level_red |-> 8, completion_minimum |-> 50]

\* the length session_history is trimmed to (lines 492-493)
HistoryLimit == 5

\* a pain trend that counts a repeated pain level as an increase
analyze_safety_trends_nonstrict(history) ==
    IF Len(history) < 3 THEN <<>>
    ELSE LET recent_sessions == SubSeq(history, Len(history) - 2, Len(history))
             pain_levels == [i \in 1..3 |-> Get(recent_sessions[i], "pain_level", 0)]
             fatigue_levels ==
                [i \in 1..3 |-> Get(recent_sessions[i], "fatigue_level", 0)]
         IN  (IF \A i \in 1..2 : pain_levels[i] <= pain_levels[i + 1]
              THEN <<"INCREASING_PAIN_TREND">> ELSE <<>>)
             \o (IF \A i \in 1..3 : fatigue_levels[i] >= 6
                 THEN <<"PERSISTENT_HIGH_FATIGUE">> ELSE <<>>)

analyze_safety_trends(history) ==
    IF Len(history) < 3 THEN <<>>
    ELSE LET recent_sessions == SubSeq(history, Len(history) - 2, Len(history))
             pain_levels == [i \in 1..3 |-> Get(recent_sessions[i], "pain_level", 0)]
             fatigue_levels ==
                [i \in 1..3 |-> Get(recent_sessions[i], "fatigue_level", 0)]
         IN  (IF \A i \in 1..2 : pain_levels[i] < pain_levels[i + 1]
              THEN <<"INCREASING_PAIN_TREND">> ELSE <<>>)
             \o (IF \A i \in 1..3 : fatigue_levels[i] >= 6
                 THEN <<"PERSISTENT_HIGH_FATIGUE">> ELSE <<>>)

\* a trim that pops the newest session instead of the oldest
retain_session_pop_newest(history, session_data) ==
    LET appended == Append(history, session_data)
    IN  IF Len(appended) > HistoryLimit
        THEN SubSeq(appended, 1, HistoryLimit)
        ELSE appended

\* session_history after the append and the trim
retain_session(history, session_data) ==
    LET appended == Append(history, session_data)
    IN  IF Len(appended) > HistoryLimit THEN Tail(appended) ELSE appended

\* assess_session_safety: the report it returns and the history it leaves
assess_session_safety(history, session_data) ==
    LET pain_level == Get(session_data, "pain_level", 0)
        fatigue_level == Get(session_data, "fatigue_level", 0)
        completion == Get(session_data, "completion_percentage", 100)
        pain_red == pain_level >= safety_thresholds.pain_level_red
        pain_yellow == ~pain_red /\ pain_level >= safety_thresholds.pain_level_yellow
        fatigue_red == fatigue_level >= safety_thresholds.fatigue_level_red
        low_completion == completion < safety_thresholds.completion_minimum
        new_history == retain_session(history, session_data)
        level_after_pain ==
            IF pain_red THEN "red" ELSE IF pain_yellow THEN "yellow" ELSE "green"
    IN  [report |->
            [safety_level |->
                IF fatigue_red
                THEN (IF level_after_pain # "red" THEN "red" ELSE "red")
                ELSE level_after_pain,
             immediate_actions |->
                (IF pain_red
                 THEN <<"STOP_ALL_ACTIVITY_IMMEDIATELY", "REST_UNTIL_PAIN_SUBSIDES",
                        "CONSULT_HEALTHCARE_PROVIDER">>
                 ELSE IF pain_yellow
                 THEN <<"REDUCE_INTENSITY_BY_50_PERCENT",
                        "FOCUS_ON_BREATHING_EXERCISES", "MONITOR_PAIN_CLOSELY">>
                 ELSE <<>>)
                \o (IF fatigue_red THEN <<"REQUIRE_COMPLETE_REST_DAY">> ELSE <<>>),
             long_term_recommendations |->
                (IF fatigue_red THEN <<"REVIEW_SLEEP_AND_RECOVERY">> ELSE <<>>)
                \o (IF low_completion THEN <<"SIMPLIFY_WORKOUT_COMPLEXITY">>
                    ELSE <<>>),
             risk_factors |->
                (IF low_completion THEN <<"LOW_COMPLETION_RATE">> ELSE <<>>)
                \o analyze_safety_trends(new_history),
             clearance_for_next_session |-> ~pain_red],
         session_history |-> new_history]

GuidelinePrecautions(body_part) ==
    IF body_part \in {"left_shoulder", "right_shoulder"}
    THEN <<"Avoid raising arms above shoulder level",
           "Use mirror to monitor posture alignment",
           "Stop immediately if sharp shoulder pain occurs">>
    ELSE IF body_part = "left_calf"
    THEN <<"Have chair available for support",
           "Monitor for swelling after exercise",
           "Ice calf if any discomfort occurs">>
    ELSE IF body_part = "lower_back"
    THEN <<"Maintain neutral spine during all movements",
           "Engage core muscles before moving",
           "Avoid sudden twisting motions">>
    ELSE <<>>

GuidelineWarnings(body_part) ==
    IF body_part \in {"left_shoulder", "right_shoulder"}
    THEN <<"Radiating pain down the arm">>
    ELSE IF body_part = "left_calf"
    THEN <<"Sharp pain during weight bearing">>
    ELSE IF body_part = "lower_back"
    THEN <<"Numbness or tingling in legs">>
    ELSE <<>>

generate_safety_guidelines(inj) ==
    [daily_precautions |->
        Flatten([i \in 1..Len(inj) |-> GuidelinePrecautions(inj[i][1])]),
     warning_signs |->
        Flatten([i \in 1..Len(inj) |-> GuidelineWarnings(inj[i][1])]),
     emergency_procedures |->
        <<"Stop immediately if severe pain occurs",
          "Apply ice to injured area",
          "Contact healthcare provider if symptoms persist",
          "Rest completely until professional assessment">>]

(***************************************************************************)
(* data/models.py: the field ranges of ProgressMetrics and WorkoutSession. *)
(***************************************************************************)
\* pain_level without its upper bound
ProgressMetrics_unbounded_pain(pain_level, fatigue_level, completion_percentage) ==
    /\ pain_level >= 0
    /\ fatigue_level >= 0 /\ fatigue_level <= 10
    /\ completion_percentage >= 0 /\ completion_percentage <= 100

ProgressMetrics(pain_level, fatigue_level, completion_percentage) ==
    /\ pain_level >= 0 /\ pain_level <= 10
    /\ fatigue_level >= 0 /\ fatigue_level <= 10
    /\ completion_percentage >= 0 /\ completion_percentage <= 100

\* WorkoutSession.week: Field(ge=1, le=52); also the bound of main.py's loop
MaxWeek == 52

(***************************************************************************)
(* TaiChiProgram, the coordinator (core/program_manager.py).  main.py and  *)
(* the example construct it from an injury profile, read current_week and  *)
(* its three agents, and call get_current_workout, complete_session and    *)
(* get_progress_report.  A coordinator is the record of its fields.        *)
(***************************************************************************)
PhaseOrder == <<"foundation", "building", "integration", "mastery">>

\* the last week of the k-th phase
PhaseEnd(k) == Sum([i \in 1..k |-> phase_duration_weeks[PhaseOrder[i]]])

phase_for_week(week) ==
    IF \E k \in 1..Len(PhaseOrder) : week <= PhaseEnd(k)
    THEN PhaseOrder[CHOOSE k \in 1..Len(PhaseOrder) :
                        /\ week <= PhaseEnd(k)
                        /\ \A j \in 1..(k - 1) : week > PhaseEnd(j)]
    ELSE PhaseOrder[Len(PhaseOrder)]

\* the week advanced without the clamp
advance_week_unclamped(week) == week + 1

advance_week(week) == Min(week + 1, MaxWeek)

TaiChiProgram(inj) ==
    [injuries |-> inj,
     current_week |-> 1,
     current_phase |-> phase_for_week(1),
     progress_data |-> <<>>,
     session_history |-> <<>>]

get_current_workout(program) ==
    LET impact == analyze_injury_impact(program.injuries)
    IN  IF impact.exc # "none" THEN impact
        ELSE Ok(generate_workout_plan(program.current_phase, impact.value,
                                      program.current_week))

\* a coordinator that treats the program as over once week 52 is reached
complete_session_ends_at_last_week(program, pain_level, fatigue_level, completion_percentage, notes, now) ==
    IF ~ProgressMetrics(pain_level, fatigue_level, completion_percentage)
    THEN [exc |-> "ValidationError", value |-> [detail |-> "out of range"],
          program |-> program]
    ELSE IF program.current_week >= MaxWeek
    THEN [exc |-> "none", value |-> [detail |-> "completed"], program |-> program]
    ELSE
    LET workout == get_current_workout(program)
    IN  IF workout.exc # "none"
        THEN [exc |-> workout.exc, value |-> workout.value, program |-> program]
        ELSE
        LET recorded ==
                record_session(program.progress_data,
                    [phase |-> workout.value.phase,
                     week |-> workout.value.week,
                     duration_minutes |-> workout.value.duration_minutes,
                     exercises |-> workout.value.exercises,
                     modifications |-> workout.value.modifications,
                     pain_level |-> pain_level,
                     fatigue_level |-> fatigue_level,
                     completion_percentage |-> completion_percentage,
                     notes |-> notes],
                    now)
            assessed ==
                assess_session_safety(program.session_history,
                    [pain_level |-> pain_level,
                     fatigue_level |-> fatigue_level,
                     completion_percentage |-> completion_percentage])
        IN  [exc |-> "none",
             value |-> [detail |-> "completed"],
             program |->
                [injuries |-> program.injuries,
                 current_week |-> advance_week(program.current_week),
                 current_phase |->
                    phase_for_week(advance_week(program.current_week)),
                 progress_data |-> recorded.value.progress_data,
                 session_history |-> assessed.session_history]]

\* complete_session: [exc, value, program], the outcome and the coordinator
\* it leaves
complete_session(program, pain_level, fatigue_level, completion_percentage, notes, now) ==
    IF ~ProgressMetrics(pain_level, fatigue_level, completion_percentage)
    THEN [exc |-> "ValidationError", value |-> [detail |-> "out of range"],
          program |-> program]
    ELSE
    LET workout == get_current_workout(program)
    IN  IF workout.exc # "none"
        THEN [exc |-> workout.exc, value |-> workout.value, program |-> program]
        ELSE
        LET recorded ==
                record_session(program.progress_data,
                    [phase |-> workout.value.phase,
                     week |-> workout.value.week,
                     duration_minutes |-> workout.value.duration_minutes,
                     exercises |-> workout.value.exercises,
                     modifications |-> workout.value.modifications,
                     pain_level |-> pain_level,
                     fatigue_level |-> fatigue_level,
                     completion_percentage |-> completion_percentage,
                     notes |-> notes],
                    now)
            assessed ==
                assess_session_safety(program.session_history,
                    [pain_level |-> pain_level,
                     fatigue_level |-> fatigue_level,
                     completion_percentage |-> completion_percentage])
        IN  [exc |-> "none",
             value |-> [detail |-> "completed"],
             program |->
                [injuries |-> program.injuries,
                 current_week |-> advance_week(program.current_week),
                 current_phase |->
                    phase_for_week(advance_week(program.current_week)),
                 progress_data |-> recorded.value.progress_data,
                 session_history |-> assessed.session_history]]

\* analyze_trends(self, window_size: int = 4)
DefaultWindow == 4

get_progress_report(program) ==
    LET impact == analyze_injury_impact(program.injuries)
    IN  IF impact.exc # "none" THEN impact
        ELSE Ok([current_week |-> program.current_week,
                 current_phase |-> program.current_phase,
                 injury_status |->
                    [status |->
                        IF impact.value.restrictions # <<>>
                           \/ impact.value.modifications # <<>>
                        THEN "active" ELSE "clear",
                     summary |-> impact.value],
                 progress_analysis |->
                    analyze_trends(program.progress_data, DefaultWindow)])

(***************************************************************************)
(* Inputs.  Every set holds the values on both sides of each threshold     *)
(* the code compares against.                                              *)
(***************************************************************************)
MaxInjuries == 2      \* injuries in a profile of the coach specification
MaxSessions == 2      \* completed sessions in Spec and SpecPair
MaxAssessments == 3   \* assessments of the stand-alone monitor
MaxRecords == 2       \* rows recorded by the stand-alone tracker
MaxLongSessions == 54 \* completed sessions in SpecLong
MaxTrendRecords == 4  \* rows recorded in SpecTrend
MaxSyncSessions == 6  \* sessions with varied feedback at either end of SpecSync
SyncLateSessions == 49 \* sessions completed when SpecSync varies them again

Injury == BodyPart \X InjurySeverity

\* the dicts of at most MaxInjuries entries, in every insertion order
Profiles ==
    UNION {{p \in [1..n -> Injury] :
                \A i, j \in 1..n : i # j => p[i][1] # p[j][1]} :
           n \in 0..MaxInjuries}

\* main.py run_demonstration and examples/basic_usage.py
DemoProfile ==
    <<<<"left_shoulder", "moderate">>, <<"right_shoulder", "mild">>,
      <<"left_calf", "moderate">>, <<"lower_back", "mild">>>>

\* tests/test_ai_agents.py test_injury_impact_analysis
TestProfile == <<<<"left_shoulder", "moderate">>, <<"lower_back", "mild">>>>

\* a body part collect_injury_info offers and the knowledge base lacks
NeckProfile == <<<<"neck", "mild">>>>

CoordProfiles == {DemoProfile, TestProfile, NeckProfile}

\* a profile whose only restriction on standing comes from the calf
CalfProfile == <<<<"left_calf", "severe">>>>

\* restriction summaries with and without a restriction on standing
DurationProfiles == {<<>>, TestProfile, CalfProfile, DemoProfile}

Feedback(p, f, c) ==
    [pain_level |-> p, fatigue_level |-> f, completion_percentage |-> c]

ValidFeedback == {Feedback(p, f, c) : p \in {2, 8}, f \in {3, 9}, c \in {40, 95}}

InvalidFeedback ==
    {Feedback(p, 3, 95) : p \in {-1, 11}}
    \cup {Feedback(2, f, 95) : f \in {-1, 11}}
    \cup {Feedback(2, 3, c) : c \in {-1, 101}}
    \cup {Feedback(11, 11, 101)}

SteadyFeedback == {Feedback(2, 3, 95), Feedback(11, 3, 95)}

SyncFeedback == {Feedback(2, 3, 95), Feedback(5, 6, 60)}

PairFeedback == {Feedback(p, 3, c) : p \in {2, 8}, c \in {40, 95}}

\* datetime.now().  No operation reads a stored timestamp, so only the
\* twin specification lets it vary.
SteadyClock == {0}

PairClock == {0, 1}

TrendWindows == {1, 2, DefaultWindow}

\* the session dicts handed to the stand-alone monitor, as the tests do
SafetySessions ==
    {Feedback(p, f, c) : p \in {3, 4, 6, 7}, f \in {7, 8}, c \in {49, 50}}

\* sessions whose pain rises, stays or falls and whose fatigue lies on both
\* sides of 6
WindowSessions == {Feedback(p, f, 95) : p \in {2, 3, 4}, f \in {5, 6}}

\* the session dict of test_session_recording (no "exercises" key), and
\* dicts that carry an exercise list
TestSession(p, c) ==
    [phase |-> "foundation", week |-> 1, duration_minutes |-> 15,
     pain_level |-> p, fatigue_level |-> 3, completion_percentage |-> c]

FullSession(d, p, f, c) ==
    [phase |-> "foundation", week |-> 1, duration_minutes |-> d,
     pain_level |-> p, fatigue_level |-> f, completion_percentage |-> c,
     exercises |-> select_phase_exercises("foundation", <<>>, 1)]

TrackerSessions ==
    {TestSession(p, c) : p \in {2}, c \in {90}}
    \cup {FullSession(d, p, f, c) :
            d \in {15, 20}, p \in {2, 5, 7}, f \in {3, 7}, c \in {55, 90}}

\* rows one unit apart in each tracked metric, among them the pain values
\* 5, 4, 3, 2
TrendSessions ==
    {FullSession(d, p, 3, 90) : d \in {15, 16}, p \in {2, 3, 4, 5}}
    \cup {FullSession(15, 3, 3, 89)}

\* rows whose means over one and two rows fall on, above and below each
\* threshold of the recommendations (pain 4 and 6, fatigue 6, completion
\* 70 and 90)
AdviceSessions ==
    {FullSession(15, p, f, c) : p \in {3, 5, 7}, f \in {5, 7}, c \in {50, 90, 95}}

PlanPhases == WorkoutPhase \cup {"other"}

\* the first and the last week of each phase
PlanWeeks == {1, 12, 13, 24, 25, 36, 37, MaxWeek}

(***************************************************************************)
(* State.                                                                  *)
(***************************************************************************)
\* the coordinator held in the variables
Self ==
    [injuries |-> injuries,
     current_week |-> current_week,
     current_phase |-> current_phase,
     progress_data |-> progress_data,
     session_history |-> session_history]

Becomes(program) ==
    /\ injuries' = program.injuries
    /\ current_week' = program.current_week
    /\ current_phase' = program.current_phase
    /\ progress_data' = program.progress_data
    /\ session_history' = program.session_history

Called(op, args, result) ==
    [op |-> op, args |-> args, exc |-> result.exc, value |-> result.value]

NoCall == [op |-> "none", args |-> <<>>, exc |-> "none", value |-> [detail |-> "none"]]

NoTwin == [program |-> [absent |-> TRUE], call |-> NoCall]

program_state == <<injuries, current_week, current_phase, progress_data,
                   session_history>>

\* the coordinator TaiChiProgram(inj) builds, for some profile
InitProgram(profiles) ==
    /\ injuries \in profiles
    /\ current_week = TaiChiProgram(injuries).current_week
    /\ current_phase = TaiChiProgram(injuries).current_phase
    /\ progress_data = TaiChiProgram(injuries).progress_data
    /\ session_history = TaiChiProgram(injuries).session_history
    /\ call = NoCall

(***************************************************************************)
(* Operations of the coordinator.                                          *)
(***************************************************************************)
CompleteSession(feedbacks, clock, limit) ==
    /\ Len(progress_data) < limit
    /\ \E fb \in feedbacks, now \in clock :
        LET r == complete_session(Self, fb.pain_level, fb.fatigue_level,
                                  fb.completion_percentage, "", now)
        IN  /\ Becomes(r.program)
            /\ call' = Called("complete_session", fb, r)
    /\ UNCHANGED twin

\* one turn of the training loop of run_interactive_mode (main.py):
\* while program.current_week <= 52, run_weekly_session shows the workout,
\* reads the feedback and completes the session; once the condition is
\* false the function returns
RunInteractiveMode(feedbacks, clock, limit) ==
    IF current_week <= 52
    THEN /\ Len(progress_data) < limit
         /\ \E fb \in feedbacks, now \in clock :
                LET r == complete_session(Self, fb.pain_level, fb.fatigue_level,
                                          fb.completion_percentage, "", now)
                IN  /\ Becomes(r.program)
                    /\ call' = Called("run_weekly_session", fb, r)
         /\ UNCHANGED twin
    ELSE /\ call' = Called("run_interactive_mode", <<>>, Ok([detail |-> "returned"]))
         /\ UNCHANGED <<program_state, twin>>

GetCurrentWorkout ==
    /\ call' = Called("get_current_workout", <<>>, get_current_workout(Self))
    /\ UNCHANGED <<program_state, twin>>

GetProgressReport ==
    /\ call' = Called("get_progress_report", <<>>, get_progress_report(Self))
    /\ UNCHANGED <<program_state, twin>>

\* an analysis that keeps only its window of the log
AnalyzeTrends_trimming(windows) ==
    /\ \E w \in windows :
        /\ call' = Called("analyze_trends", [window_size |-> w],
                          Ok(analyze_trends(progress_data, w)))
        /\ progress_data' = DataFrameTail(progress_data, w)
    /\ UNCHANGED <<injuries, current_week, current_phase, session_history, twin>>

AnalyzeTrends(windows) ==
    /\ \E w \in windows :
        call' = Called("analyze_trends", [window_size |-> w],
                       Ok(analyze_trends(progress_data, w)))
    /\ UNCHANGED <<program_state, twin>>

GetSafetyGuidelines ==
    /\ call' = Called("generate_safety_guidelines", <<>>,
                      Ok(generate_safety_guidelines(injuries)))
    /\ UNCHANGED <<program_state, twin>>

(***************************************************************************)
(* Operations on one agent alone, as the tests call them.                  *)
(***************************************************************************)
AssessSessionSafety(sessions, limit) ==
    /\ Len(session_history) < limit
    /\ \E session_data \in sessions :
        LET r == assess_session_safety(session_history, session_data)
        IN  /\ session_history' = r.session_history
            /\ call' = Called("assess_session_safety", session_data, Ok(r.report))
    /\ UNCHANGED <<injuries, current_week, current_phase, progress_data, twin>>

RecordSession(sessions, clock, limit) ==
    /\ Len(progress_data) < limit
    /\ \E session_data \in sessions, now \in clock :
        LET r == record_session(progress_data, session_data, now)
        IN  /\ progress_data' =
                    IF r.exc = "none" THEN r.value.progress_data ELSE progress_data
            /\ call' = Called("record_session", session_data,
                              IF r.exc = "none" THEN Ok([detail |-> "recorded"])
                              ELSE r)
    /\ UNCHANGED <<injuries, current_week, current_phase, session_history, twin>>

AnalyzeInjuryImpact ==
    /\ call' = Called("analyze_injury_impact", <<>>,
                      analyze_injury_impact(injuries))
    /\ UNCHANGED <<program_state, twin>>

\* analyze_injury_impact, then generate_workout_plan on its result, for the
\* phase and week held in the variables
GenerateWorkoutPlan ==
    /\ LET impact == analyze_injury_impact(injuries)
       IN  call' = Called("generate_workout_plan",
                          [phase |-> current_phase, week |-> current_week],
                          IF impact.exc # "none" THEN impact
                          ELSE Ok(generate_workout_plan(current_phase, impact.value,
                                                        current_week)))
    /\ UNCHANGED <<program_state, twin>>

\* _calculate_optimal_duration on the restriction summary of the profile, for
\* any phase and week, matching or not
CalculateOptimalDuration(phases, weeks) ==
    /\ \E phase \in phases, week \in weeks :
        LET impact == analyze_injury_impact(injuries)
        IN  /\ impact.exc = "none"
            /\ call' = Called("calculate_optimal_duration",
                              [phase |-> phase, week |-> week,
                               injury_impact |-> impact.value],
                              Ok(calculate_optimal_duration(phase, week,
                                                            impact.value)))
    /\ UNCHANGED <<program_state, twin>>

(***************************************************************************)
(* Two coordinators built from the same profile and given the same calls,  *)
(* each reading its own clock.                                             *)
(***************************************************************************)
PairCompleteSession(feedbacks, clock, limit) ==
    /\ Len(progress_data) < limit
    /\ \E fb \in feedbacks, now \in clock, twin_now \in clock :
        LET r == complete_session(Self, fb.pain_level, fb.fatigue_level,
                                  fb.completion_percentage, "", now)
            t == complete_session(twin.program, fb.pain_level, fb.fatigue_level,
                                  fb.completion_percentage, "", twin_now)
        IN  /\ Becomes(r.program)
            /\ call' = Called("complete_session", fb, r)
            /\ twin' = [program |-> t.program,
                        call |-> Called("complete_session", fb, t)]

PairGetCurrentWorkout ==
    /\ call' = Called("get_current_workout", <<>>, get_current_workout(Self))
    /\ twin' = [program |-> twin.program,
                call |-> Called("get_current_workout", <<>>,
                                get_current_workout(twin.program))]
    /\ UNCHANGED program_state

PairAnalyzeTrends(windows) ==
    /\ \E w \in windows :
        /\ call' = Called("analyze_trends", [window_size |-> w],
                          Ok(analyze_trends(progress_data, w)))
        /\ twin' = [program |-> twin.program,
                    call |-> Called("analyze_trends", [window_size |-> w],
                                    Ok(analyze_trends(twin.program.progress_data,
                                                      w)))]
    /\ UNCHANGED program_state

(***************************************************************************)
(* Specifications.                                                         *)
(***************************************************************************)
\* the coordinator: sessions with valid and invalid feedback, and queries
Init == InitProgram(CoordProfiles) /\ twin = NoTwin

Next ==
    \/ CompleteSession(ValidFeedback \cup InvalidFeedback, SteadyClock, MaxSessions)
    \/ GetCurrentWorkout
    \/ GetProgressReport
    \/ AnalyzeTrends(TrendWindows)
    \/ GetSafetyGuidelines

Spec == Init /\ [][Next]_vars

\* the coordinator driven through the whole program, week after week
NextLong == CompleteSession(SteadyFeedback, SteadyClock, MaxLongSessions)

SpecLong == Init /\ [][NextLong]_vars

\* the safety monitor alone
InitAgents == InitProgram({<<>>}) /\ twin = NoTwin

NextSafety == AssessSessionSafety(SafetySessions, MaxAssessments)

SpecSafety == InitAgents /\ [][NextSafety]_vars

\* the safety monitor assessing session after session, its window full or not
NextWindow == AssessSessionSafety(WindowSessions, HistoryLimit + 1)

SpecWindow == InitAgents /\ [][NextWindow]_vars

\* the progress tracker alone
NextTracker ==
    \/ RecordSession(TrackerSessions, SteadyClock, MaxRecords)
    \/ AnalyzeTrends(TrendWindows)

SpecTracker == InitAgents /\ [][NextTracker]_vars

\* the progress tracker with a log as long as the default window
NextTrend ==
    \/ RecordSession(TrendSessions, SteadyClock, MaxTrendRecords)
    \/ AnalyzeTrends(TrendWindows)

SpecTrend == InitAgents /\ [][NextTrend]_vars

\* the progress tracker fed rows around the recommendation thresholds
NextAdvice ==
    \/ RecordSession(AdviceSessions, SteadyClock, MaxRecords)
    \/ AnalyzeTrends(TrendWindows)

SpecAdvice == InitAgents /\ [][NextAdvice]_vars

\* the coach alone: its functions applied to every profile, phase and week
InitCoach ==
    /\ injuries \in Profiles
    /\ current_phase \in PlanPhases
    /\ current_week \in PlanWeeks
    /\ progress_data = <<>>
    /\ session_history = <<>>
    /\ twin = NoTwin
    /\ call = NoCall

NextCoach ==
    \/ AnalyzeInjuryImpact
    \/ GenerateWorkoutPlan

SpecCoach == InitCoach /\ [][NextCoach]_vars

\* the duration rule alone, over every phase and every week
InitDuration == InitProgram(DurationProfiles) /\ twin = NoTwin

NextDuration == CalculateOptimalDuration(PlanPhases, 1..MaxWeek)

SpecDuration == InitDuration /\ [][NextDuration]_vars

\* the coordinator followed through its first sessions with any feedback,
\* through uneventful sessions up to week 50, and from there through the
\* sessions, with any feedback, that run into the last week
InitSync == InitProgram({TestProfile}) /\ twin = NoTwin

NextSync ==
    \/ CompleteSession(SyncFeedback, SteadyClock, MaxSyncSessions)
    \/ /\ \A i \in 1..Len(progress_data) : progress_data[i].pain_level = 2
       /\ CompleteSession({Feedback(2, 3, 95)}, SteadyClock, SyncLateSessions)
    \/ /\ Len(progress_data) >= SyncLateSessions
       /\ CompleteSession(SyncFeedback, SteadyClock,
                          SyncLateSessions + MaxSyncSessions)

SpecSync == InitSync /\ [][NextSync]_vars

\* the interactive training loop of a user who reports no injury, every
\* session completed with valid feedback: any of it after the first
\* session, uneventful after the later ones.  The loop is the only thread
\* and takes its next turn whenever it can.
InitLoop == InitProgram({<<>>}) /\ twin = NoTwin

LoopFeedback == IF progress_data = <<>> THEN ValidFeedback ELSE {Feedback(2, 3, 95)}

NextLoop == RunInteractiveMode(LoopFeedback, SteadyClock, MaxLongSessions)

SpecLoop == InitLoop /\ [][NextLoop]_vars /\ WF_vars(NextLoop)

\* two coordinators stepped together
InitPair ==
    /\ InitProgram(CoordProfiles)
    /\ twin = [program |-> TaiChiProgram(injuries), call |-> NoCall]

NextPair ==
    \/ PairCompleteSession(PairFeedback, PairClock, MaxSessions)
    \/ PairGetCurrentWorkout
    \/ PairAnalyzeTrends(TrendWindows)

SpecPair == InitPair /\ [][NextPair]_vars

(***************************************************************************)
(* Properties of the safety monitor (SpecSafety).                          *)
(***************************************************************************)
Assessed == call.op = "assess_session_safety"

\* C1: the verdict's clearance-for-next-session is false exactly when its
\* safety level is red, whatever made it red.
C1_ClearanceFalseExactlyWhenRed ==
    Assessed =>
        (call.value.clearance_for_next_session = FALSE
            <=> call.value.safety_level = "red")

\* C2: the safety level is decided by the pain and the fatigue of the session
\* being assessed alone: red if pain >= 7 or fatigue >= 8, yellow if
\* 4 <= pain <= 6 and fatigue < 8, green otherwise, whatever the completion
\* percentage and the sessions retained from earlier assessments.
C2_LevelFromPainAndFatigue ==
    Assessed =>
        call.value.safety_level =
            IF call.args.pain_level >= 7 \/ call.args.fatigue_level >= 8
            THEN "red"
            ELSE IF call.args.pain_level >= 4 /\ call.args.pain_level <= 6
                    /\ call.args.fatigue_level < 8
            THEN "yellow"
            ELSE "green"

\* a yellow verdict for a session of low completion, assessed after a red and
\* a green session were retained
C2_Witness ==
    /\ Assessed
    /\ Len(session_history) = 3
    /\ session_history[1].pain_level >= 7
    /\ session_history[2].pain_level < 4 /\ session_history[2].fatigue_level < 8
    /\ call.args = session_history[3]
    /\ call.args.completion_percentage < 50
    /\ call.value.safety_level = "yellow"

(***************************************************************************)
(* Properties of the coordinator (Spec, SpecLong, SpecPair).               *)
(***************************************************************************)
\* C3: complete_session called with pain outside 0..10, fatigue outside
\* 0..10 or completion outside 0..100 fails with a ValidationError and
\* leaves the week, the phase, the tracker's log and the monitor's window
\* as they were.
C3_InvalidFeedbackChangesNothing ==
    [][(/\ call'.op = "complete_session"
        /\ \/ call'.args.pain_level \notin 0..10
           \/ call'.args.fatigue_level \notin 0..10
           \/ call'.args.completion_percentage \notin 0..100)
       => (/\ call'.exc = "ValidationError"
           /\ current_week' = current_week
           /\ current_phase' = current_phase
           /\ progress_data' = progress_data
           /\ session_history' = session_history)]_vars

\* a rejected call made after one session was completed
C3_Witness ==
    /\ call.op = "complete_session"
    /\ call.exc = "ValidationError"
    /\ call.args.fatigue_level > 10
    /\ current_week = 2
    /\ Len(progress_data) = 1
    /\ Len(session_history) = 1

\* C4: after n successful complete_session calls from week 1 the week is
\* min(52, 1 + n); after 12 it is 13 and the phase is Building.  (Every
\* successful call, and no other, adds one row to the tracker's log.)
C4_WeekCountsCompletions ==
    /\ current_week = Min(52, 1 + Len(progress_data))
    /\ Len(progress_data) = 12 =>
            current_week = 13 /\ current_phase = "building"

\* a session completed at week 52 left the week at 52
C4_Witness ==
    /\ call.op = "complete_session"
    /\ call.exc = "none"
    /\ Len(progress_data) = 53
    /\ current_week = 52

\* C5: the week lies in 1..52 and the stored phase is the phase of the
\* stored week: Foundation 1-12, Building 13-24, Integration 25-36,
\* Mastery 37-52.
C5_PhaseFollowsWeek ==
    /\ current_week \in 1..52
    /\ current_phase =
            IF current_week <= 12 THEN "foundation"
            ELSE IF current_week <= 24 THEN "building"
            ELSE IF current_week <= 36 THEN "integration"
            ELSE "mastery"

\* the first week of the Integration phase, reached by completing sessions
C5_Witness ==
    /\ call.op = "complete_session"
    /\ call.exc = "none"
    /\ current_week = 25
    /\ current_phase = "integration"

\* C9: two coordinators built from the same profile and stepped through the
\* same feedback return the same workout plan and the same trend report at
\* every step, whatever each one's clock reads.
C9_TwinsAgree ==
    call.op \in {"get_current_workout", "analyze_trends"} =>
        /\ twin.call.op = call.op
        /\ twin.call.exc = call.exc
        /\ twin.call.value = call.value

\* a trend report over two sessions that the twins stamped differently
C9_Witness ==
    /\ call.op = "analyze_trends"
    /\ Len(progress_data) = 2
    /\ \E i \in 1..2 :
        progress_data[i].timestamp # twin.program.progress_data[i].timestamp
    /\ call.value.trends.pain_trend = "increasing"

\* C10: get_current_workout, get_progress_report, analyze_trends and
\* generate_safety_guidelines change nothing of the program (week, phase,
\* injury profile, tracker log, monitor window), and the same query asked
\* again answers the same.
ReadOnlyQueries ==
    {"get_current_workout", "get_progress_report", "analyze_trends",
     "generate_safety_guidelines"}

C10_QueriesChangeNothing ==
    [][call'.op \in ReadOnlyQueries
       => (/\ injuries' = injuries
           /\ current_week' = current_week
           /\ current_phase' = current_phase
           /\ progress_data' = progress_data
           /\ session_history' = session_history
           /\ (call.op = call'.op /\ call.args = call'.args)
                => (call'.exc = call.exc /\ call'.value = call.value))]_vars

\* a trend analysis asked between the second and the third session
C10_Witness ==
    /\ call.op = "analyze_trends"
    /\ call.args.window_size = 2
    /\ Len(progress_data) = 2
    /\ current_week = 3
    /\ "risk_factors" \in DOMAIN call.value

(***************************************************************************)
(* Properties of the coach (SpecCoach).                                    *)
(***************************************************************************)
PlanReturned == call.op = "generate_workout_plan" /\ call.exc = "none"

\* the reduction the three rule groups add up to for an exercise
SummedReduction(exercise, impact) ==
    (IF AnyRestrictionHas(impact, "shoulder")
        /\ exercise.name \in {"cloud_hands", "ward_off"} THEN 2 ELSE 0)
    + (IF AnyRestrictionHas(impact, "standing")
          /\ exercise.category \in {"qigong", "forms"} THEN 3 ELSE 0)
    + (IF AnyRestrictionLowerHas(impact, "back")
          /\ exercise.name \in {"ward_off", "press"} THEN 2 ELSE 0)

\* C6: the planned duration of an exercise is max(3, base duration minus the
\* sum of the reductions of all the rule groups it matches).
C6_ReductionsAddUp ==
    PlanReturned =>
        LET impact == analyze_injury_impact(injuries).value
            base == select_phase_exercises(call.args.phase, impact, call.args.week)
        IN  \A i \in 1..Len(base) :
                call.value.exercises[i].duration =
                    Max(3, base[i].duration - SummedReduction(base[i], impact))

\* C7: for every profile over the eight body parts, every phase and every
\* week, deriving the restriction summary and generating the plan returns a
\* plan and raises nothing.
C7_PlanNeverRaises ==
    call.op \in {"analyze_injury_impact", "generate_workout_plan"} =>
        call.exc = "none"

(***************************************************************************)
(* Properties of the progress tracker (SpecTracker).                       *)
(***************************************************************************)
\* C8: record_session accepts a record that carries phase, week, planned
\* duration, pain, fatigue and completion, with or without an exercise
\* list; the log grows by exactly that record, placed last, and the earlier
\* rows stay as they were.
C8_RecordAppends ==
    [][call'.op = "record_session"
       => (/\ call'.exc = "none"
           /\ Len(progress_data') = Len(progress_data) + 1
           /\ SubSeq(progress_data', 1, Len(progress_data)) = progress_data
           /\ progress_data'[Len(progress_data')].pain_level
                = call'.args.pain_level
           /\ progress_data'[Len(progress_data')].completion_percentage
                = call'.args.completion_percentage)]_vars

(***************************************************************************)
(* Properties of the duration rule (SpecDuration).                         *)
(***************************************************************************)
DurationComputed == call.op = "calculate_optimal_duration"

NoStandingPenalty(impact) == ~AnyRestrictionHas(impact, "standing")

\* C11: the duration computed for a plan lies in 10..60 minutes, for each of
\* the four phases and for any other phase value, for every week 1..52
\* whether or not the week belongs to the phase, and for every restriction
\* summary, with or without a restriction that mentions "standing".
C11_DurationInRange ==
    DurationComputed => (call.value >= 10 /\ call.value <= 60)

\* the cap decides: foundation at week 52 with a restriction on standing
C11_Witness ==
    /\ DurationComputed
    /\ call.args.phase = "foundation"
    /\ call.args.week = MaxWeek
    /\ ~NoStandingPenalty(call.args.injury_impact)
    /\ call.value = 60

\* C12: with the phase and the restriction summary fixed and no restriction
\* mentioning "standing", a later week never gets a shorter duration than
\* an earlier one.
C12_DurationMonotoneInWeek ==
    [][(/\ DurationComputed
        /\ DurationComputed'
        /\ call'.args.phase = call.args.phase
        /\ NoStandingPenalty(call.args.injury_impact)
        /\ call.args.week <= call'.args.week)
       => call.value <= call'.value]_vars

\* a week inside the integration phase, where the duration has grown
C12_Witness ==
    /\ DurationComputed
    /\ call.args.phase = "integration"
    /\ call.args.week = 30
    /\ NoStandingPenalty(call.args.injury_impact)
    /\ call.value = 37

(***************************************************************************)
(* Properties of the progress tracker (SpecTracker, SpecTrend).            *)
(***************************************************************************)
TrendsAnalyzed == call.op = "analyze_trends"

NoDataReport == [status |-> "no_data", recommendations |-> <<"continue_baseline">>]

\* C13: a trend analysis of an empty log returns, for any window size, the
\* report with status "no_data" and the single recommendation
\* "continue_baseline"; an analysis of a log with at least one recorded
\* session never returns that report.
C13_NoDataOnlyOnEmptyLog ==
    TrendsAnalyzed =>
        /\ progress_data = <<>> => call.value = NoDataReport
        /\ progress_data # <<>> =>
                /\ "status" \notin DOMAIN call.value
                /\ call.value.recommendations # <<"continue_baseline">>

\* one recorded session analysed with a window longer than the log
C13_Witness ==
    /\ TrendsAnalyzed
    /\ Len(progress_data) = 1
    /\ call.args.window_size = 2
    /\ "trends" \in DOMAIN call.value

\* the direction from the first value of a window to its last, of `rows` rows
Direction(first, last, rows) ==
    IF rows = 1 THEN "stable"
    ELSE IF 2 * last > 2 * first + 1 THEN "increasing"
    ELSE IF 2 * last < 2 * first - 1 THEN "decreasing"
    ELSE "stable"

TrackedMetrics ==
    {<<"pain_trend", "pain_level">>, <<"duration_trend", "duration_minutes">>,
     <<"completion_trend", "completion_percentage">>}

\* C14: for pain, duration and completion the reported trend compares the
\* last record of the window (the most recent window_size records, fewer
\* when the log is shorter) with the first record of that window:
\* "increasing" if last > first + 0.5, "decreasing" if last < first - 0.5,
\* "stable" otherwise and whenever the window holds one record.
C14_TrendComparesWindowEnds ==
    (TrendsAnalyzed /\ progress_data # <<>>) =>
        LET n == Len(progress_data)
            rows == IF call.args.window_size < n THEN call.args.window_size ELSE n
            first == progress_data[n - rows + 1]
            last == progress_data[n]
        IN  \A m \in TrackedMetrics :
                call.value.trends[m[1]] = Direction(first[m[2]], last[m[2]], rows)

\* window 4 over four records with the pain values 5, 4, 3, 2
C14_Witness ==
    /\ TrendsAnalyzed
    /\ call.args.window_size = 4
    /\ Len(progress_data) = 4
    /\ Column(progress_data, "pain_level") = <<5, 4, 3, 2>>
    /\ call.value.trends.pain_trend = "decreasing"

(***************************************************************************)
(* Properties of the restriction summary (SpecCoach).                      *)
(***************************************************************************)
ImpactReturned == call.op = "analyze_injury_impact" /\ call.exc = "none"

\* the position of the k-th knowledge-base entry of the i-th injury
EntryAt(i, k) == 3 * (i - 1) + k

\* C15: the restriction summary keeps the order of the profile: the
\* restrictions are grouped by body part in the order the profile lists
\* them, each group in knowledge-base order and annotated with the severity
\* of its body part; the modification and compensatory lists are grouped
\* the same way.
C15_SummaryKeepsProfileOrder ==
    ImpactReturned =>
        /\ Len(call.value.restrictions) = 3 * Len(injuries)
        /\ Len(call.value.modifications) = 3 * Len(injuries)
        /\ Len(call.value.compensatory_strategies) = 3 * Len(injuries)
        /\ \A i \in 1..Len(injuries), k \in 1..3 :
            LET entry == load_injury_modifications[injuries[i][1]]
            IN  /\ call.value.restrictions[EntryAt(i, k)]
                        = entry.avoid[k] \o " (" \o injuries[i][2] \o ")"
                /\ call.value.modifications[EntryAt(i, k)] = entry.modify[k]
                /\ call.value.compensatory_strategies[EntryAt(i, k)]
                        = entry.compensatory[k]

\* a profile that lists the back before the calf, with different severities
C15_Witness ==
    /\ ImpactReturned
    /\ injuries = <<<<"lower_back", "severe">>, <<"left_calf", "mild">>>>
    /\ call.value.restrictions[1] = "forward bends (severe)"
    /\ call.value.restrictions[4] = "deep stances (mild)"

(***************************************************************************)
(* Properties of the safety monitor's actions and window (SpecSafety,      *)
(* SpecWindow).                                                            *)
(***************************************************************************)
Range(seq) == {seq[i] : i \in 1..Len(seq)}

SevereActions ==
    {"STOP_ALL_ACTIVITY_IMMEDIATELY", "REST_UNTIL_PAIN_SUBSIDES",
     "CONSULT_HEALTHCARE_PROVIDER"}

\* C16: every verdict whose safety level is red carries the three most
\* severe immediate actions (stop all activity, rest until the pain
\* subsides, consult a healthcare provider), whether pain or fatigue made
\* it red.
C16_RedCarriesSevereActions ==
    (Assessed /\ call.value.safety_level = "red")
        => SevereActions \subseteq Range(call.value.immediate_actions)

\* C17: the monitor's retained window is a first-in first-out queue of
\* capacity 5: an assessment appends its session as the newest entry, and
\* when the window already holds 5 sessions it evicts exactly the oldest.
C17_WindowIsFifoOfFive ==
    [][call'.op = "assess_session_safety"
       => /\ session_history' =
                IF Len(session_history) < 5
                THEN Append(session_history, call'.args)
                ELSE Append(Tail(session_history), call'.args)
          /\ Len(session_history') <= 5]_vars

\* a full window whose newest entry is the session just assessed and whose
\* entries are not all alike
C17_Witness ==
    /\ Assessed
    /\ Len(session_history) = 5
    /\ session_history[5] = call.args
    /\ session_history[1] # session_history[5]
    /\ session_history[1] # session_history[2]

TrendTags == {"INCREASING_PAIN_TREND", "PERSISTENT_HIGH_FATIGUE"}

\* C18: the trend tags of a verdict are computed over the last 3 retained
\* sessions, the assessed one being the newest: with fewer than 3 retained
\* there is no trend tag; otherwise INCREASING_PAIN_TREND is present
\* exactly when pain strictly increases across the 3, and
\* PERSISTENT_HIGH_FATIGUE exactly when all 3 fatigue values are >= 6.
C18_TrendTagsFromLastThree ==
    Assessed =>
        LET n == Len(session_history)
            tags == Range(call.value.risk_factors) \cap TrendTags
        IN  /\ session_history[n] = call.args
            /\ n < 3 => tags = {}
            /\ n >= 3 =>
                /\ "INCREASING_PAIN_TREND" \in tags
                    <=> /\ session_history[n - 2].pain_level
                                < session_history[n - 1].pain_level
                        /\ session_history[n - 1].pain_level
                                < session_history[n].pain_level
                /\ "PERSISTENT_HIGH_FATIGUE" \in tags
                    <=> \A i \in (n - 2)..n : session_history[i].fatigue_level >= 6

\* the fourth assessment: pain 2, 3, 4 and fatigue 6, 6, 6 after a calm one
C18_Witness ==
    /\ Assessed
    /\ Len(session_history) = 4
    /\ session_history[1] = Feedback(4, 5, 95)
    /\ Column(session_history, "pain_level") = <<4, 2, 3, 4>>
    /\ Column(session_history, "fatigue_level") = <<5, 6, 6, 6>>
    /\ Range(call.value.risk_factors) = TrendTags

(***************************************************************************)
(* The analyzer's log against the monitor's window (SpecSync).             *)
(***************************************************************************)
FeedbackOf(session) ==
    <<session.pain_level, session.fatigue_level, session.completion_percentage>>

\* C19: a successful session completion adds exactly one record to the
\* analyzer's log, also once the week is clamped at 52, and leaves the
\* monitor's window equal to the pain, fatigue and completion feedback of
\* the last min(n, 5) records of the log of n records, in the same order.
C19_LogAndWindowAgree ==
    [][(call'.op = "complete_session" /\ call'.exc = "none")
       => /\ Len(progress_data') = Len(progress_data) + 1
          /\ LET n == Len(progress_data')
                 k == IF n < 5 THEN n ELSE 5
             IN  /\ Len(session_history') = k
                 /\ \A i \in 1..k :
                        FeedbackOf(session_history'[i])
                            = FeedbackOf(progress_data'[n - k + i])]_vars

\* sessions completed after the week reached 52, with differing feedback
C19_Witness ==
    /\ call.op = "complete_session"
    /\ call.exc = "none"
    /\ current_week = 52
    /\ Len(progress_data) > 52
    /\ Len(session_history) = 5
    /\ FeedbackOf(session_history[4]) # FeedbackOf(session_history[5])

(***************************************************************************)
(* The back rule group, end to end (SpecCoach).                            *)
(***************************************************************************)
BackModifications == {"maintain neutral spine", "engage core throughout movement"}

\* C20: for every profile with a lower-back injury, the plan of a phase
\* whose exercises include ward_off or press (building, integration,
\* mastery) gives each of those exercises the two modification strings of
\* the back rule group and a duration below its base duration.
C20_BackInjuryReachesExercises ==
    (/\ PlanReturned
     /\ call.args.phase \in {"building", "integration", "mastery"}
     /\ \E i \in 1..Len(injuries) : injuries[i][1] = "lower_back")
    => \A e \in 1..Len(call.value.exercises) :
        LET planned == call.value.exercises[e]
            base == select_phase_exercises(call.args.phase, <<>>, call.args.week)[e]
        IN  planned.name \in {"ward_off", "press"}
            => /\ "modifications" \in DOMAIN planned
               /\ BackModifications \subseteq Range(planned.modifications)
               /\ planned.duration < base.duration

(***************************************************************************)
(* Recommendations and risk factors of the tracker (SpecAdvice, SpecTrend).*)
(***************************************************************************)
\* the rows analyze_trends looks at: the last window_size rows of the log
WindowRows ==
    LET n == Len(progress_data)
        k == IF call.args.window_size < n THEN call.args.window_size ELSE n
    IN  [i \in 1..k |-> progress_data[n - k + i]]

ReduceIntensityTags ==
    {"reduce_intensity_50_percent", "focus_on_breathing_exercises",
     "consult_healthcare_provider_if_persistent"}

RestTags ==
    {"ensure_adequate_rest", "reduce_frequency_by_one_session",
     "focus_on_recovery_nutrition"}

\* C21: for a non-empty log the recommendations are never empty;
\* "continue_current_program" is among them exactly when no threshold rule
\* fires over the window (mean pain <= 4, mean fatigue <= 6,
\* 70 <= mean completion <= 90) and is then the only entry; the
\* reduce-intensity tags (mean pain > 6) and the maintain-intensity tag
\* (4 < mean pain <= 6) exclude each other, as do consider-progression
\* (mean completion > 90) and simplify-exercises (mean completion < 70),
\* while the pain, fatigue and completion groups accumulate.
C21_RecommendationsFollowThresholds ==
    (TrendsAnalyzed /\ progress_data # <<>>) =>
        LET k == Len(WindowRows)
            pain == Sum(Column(WindowRows, "pain_level"))
            fatigue == Sum(Column(WindowRows, "fatigue_level"))
            completion == Sum(Column(WindowRows, "completion_percentage"))
            tags == Range(call.value.recommendations)
            no_rule == /\ pain <= 4 * k
                       /\ fatigue <= 6 * k
                       /\ completion >= 70 * k
                       /\ completion <= 90 * k
        IN  /\ tags # {}
            /\ "continue_current_program" \in tags <=> no_rule
            /\ no_rule => call.value.recommendations = <<"continue_current_program">>
            /\ ReduceIntensityTags \subseteq tags <=> pain > 6 * k
            /\ ReduceIntensityTags \cap tags # {} <=> pain > 6 * k
            /\ "maintain_current_intensity" \in tags
                    <=> (pain > 4 * k /\ pain <= 6 * k)
            /\ RestTags \subseteq tags <=> fatigue > 6 * k
            /\ RestTags \cap tags # {} <=> fatigue > 6 * k
            /\ "consider_moderate_progression" \in tags <=> completion > 90 * k
            /\ "simplify_exercises_temporarily" \in tags <=> completion < 70 * k

\* two rows whose mean pain is exactly 6 and mean completion exactly 70,
\* with a mean fatigue above 6: the pain and fatigue groups accumulate
C21_Witness ==
    /\ TrendsAnalyzed
    /\ call.args.window_size = 2
    /\ Column(progress_data, "pain_level") = <<5, 7>>
    /\ Column(progress_data, "fatigue_level") = <<7, 7>>
    /\ Column(progress_data, "completion_percentage") = <<50, 90>>
    /\ call.value.recommendations
            = <<"maintain_current_intensity", "ensure_adequate_rest",
                "reduce_frequency_by_one_session", "focus_on_recovery_nutrition">>

RiskTags == {"persistent_moderate_pain", "consistent_low_completion"}

\* C22: the risk factors of a trend analysis depend only on the last three
\* recorded sessions: with at least 3 records in the log, for any window
\* size >= 1, "persistent_moderate_pain" is reported exactly when the
\* last 3 pain values are all >= 5 and "consistent_low_completion" exactly
\* when the last 3 completion values are all < 60; with fewer than 3
\* records no risk factor is reported.
C22_RiskFactorsFromLastThree ==
    (TrendsAnalyzed /\ progress_data # <<>>) =>
        LET n == Len(progress_data)
            risks == Range(call.value.risk_factors)
        IN  /\ risks \subseteq RiskTags
            /\ n < 3 => risks = {}
            /\ n >= 3 =>
                /\ "persistent_moderate_pain" \in risks
                    <=> \A i \in (n - 2)..n : progress_data[i].pain_level >= 5
                /\ "consistent_low_completion" \in risks
                    <=> \A i \in (n - 2)..n :
                            progress_data[i].completion_percentage < 60

====
